---- MODULE Spec2Model ----
(***************************************************************************)
(* Model of sensor_collector.py: the SensorCollector class (UART polling   *)
(* loop, line parser, MQTT publishing, stop()).                            *)
(*                                                                         *)
(* Text is modelled as sequences of one-character strings so that strip,   *)
(* split, startswith, slicing, float() and int() are computed as the code  *)
(* computes them.                                                          *)
(***************************************************************************)
EXTENDS Integers, Sequences, FiniteSets, TLC

(***************************************************************************)
(* Bounds of the model                                                     *)
(***************************************************************************)
\* number of polling cycles a run may start
MaxCycles == 2
\* number of connect / disconnect notifications the bus client delivers
MaxNotifs == 2
\* number of stop() calls made from outside run()
MaxExtStops == 1
\* number of tokens on a line handed to the parser
MaxTokens == 3

(***************************************************************************)
(* Text helpers (Python str methods used by parse_sensor_data)             *)
(***************************************************************************)
Digits == {"0", "1", "2", "3", "4", "5", "6", "7", "8", "9"}

DigitVal(c) ==
    CASE c = "0" -> 0 [] c = "1" -> 1 [] c = "2" -> 2 [] c = "3" -> 3
      [] c = "4" -> 4 [] c = "5" -> 5 [] c = "6" -> 6 [] c = "7" -> 7
      [] c = "8" -> 8 [] c = "9" -> 9

Whitespace == {" ", "\t", "\n", "\r"}

\* s[n:]
Slice(s, n) == SubSeq(s, n + 1, Len(s))

\* s.startswith(p)
StartsWith(s, p) == Len(s) >= Len(p) /\ SubSeq(s, 1, Len(p)) = p

RECURSIVE LStrip(_)
LStrip(s) ==
    IF s # <<>> /\ Head(s) \in Whitespace THEN LStrip(Tail(s)) ELSE s

RECURSIVE RStrip(_)
RStrip(s) ==
    IF s # <<>> /\ s[Len(s)] \in Whitespace
    THEN RStrip(SubSeq(s, 1, Len(s) - 1))
    ELSE s

\* s.strip()
Strip(s) == RStrip(LStrip(s))

\* s.split(): cut at runs of whitespace, no empty parts.
\* cur is the part being collected, acc the parts already cut.
RECURSIVE SplitFrom(_, _, _)
SplitFrom(s, cur, acc) ==
    IF s = <<>>
    THEN IF cur = <<>> THEN acc ELSE Append(acc, cur)
    ELSE IF Head(s) \in Whitespace
         THEN SplitFrom(Tail(s), <<>>, IF cur = <<>> THEN acc ELSE Append(acc, cur))
         ELSE SplitFrom(Tail(s), Append(cur, Head(s)), acc)

Split(s) == SplitFrom(s, <<>>, <<>>)

RECURSIVE AllDigits(_)
AllDigits(s) == s = <<>> \/ (Head(s) \in Digits /\ AllDigits(Tail(s)))

RECURSIVE DigitsValue(_, _)
DigitsValue(s, acc) ==
    IF s = <<>> THEN acc ELSE DigitsValue(Tail(s), 10 * acc + DigitVal(Head(s)))

\* position of the first "." in s, 0 when there is none
RECURSIVE DotAt(_, _)
DotAt(s, i) ==
    IF i > Len(s) THEN 0 ELSE IF s[i] = "." THEN i ELSE DotAt(s, i + 1)

\* A decimal number m / 10^e in lowest form: the float a literal denotes.
RECURSIVE Norm(_, _)
Norm(m, e) ==
    IF m = 0 THEN [m |-> 0, e |-> 0]
    ELSE IF e > 0 /\ m % 10 = 0 THEN Norm(m \div 10, e - 1)
    ELSE [m |-> m, e |-> e]

\* Outcome of a conversion: the value, or the ValueError it raises.
Value(v) == [err |-> FALSE, val |-> v]
ValueError == [err |-> TRUE, val |-> 0]

\* float(s) for an unsigned literal: digits, digits.digits, digits., .digits
UFloat(s) ==
    LET d == DotAt(s, 1) IN
    IF d = 0
    THEN IF s # <<>> /\ AllDigits(s) THEN Value(Norm(DigitsValue(s, 0), 0)) ELSE ValueError
    ELSE LET ip == SubSeq(s, 1, d - 1)
             fp == Slice(s, d)
         IN  IF AllDigits(ip) /\ AllDigits(fp) /\ Len(ip) + Len(fp) > 0
             THEN Value(Norm(DigitsValue(ip \o fp, 0), Len(fp)))
             ELSE ValueError

\* float(s): optional sign, then an unsigned literal.  Exponents, "inf",
\* "nan" and digit-group underscores need characters that no line of the
\* model contains.
PyFloat(s) ==
    IF s # <<>> /\ Head(s) \in {"+", "-"}
    THEN LET u == UFloat(Tail(s)) IN
         IF u.err THEN ValueError
         ELSE IF Head(s) = "-" THEN Value(Norm(0 - u.val.m, u.val.e)) ELSE u
    ELSE UFloat(s)

\* int(s): optional sign, then one or more digits
PyInt(s) ==
    LET body == IF s # <<>> /\ Head(s) \in {"+", "-"} THEN Tail(s) ELSE s IN
    IF body # <<>> /\ AllDigits(body)
    THEN Value(IF Head(s) = "-" THEN 0 - DigitsValue(body, 0) ELSE DigitsValue(body, 0))
    ELSE ValueError

(***************************************************************************)
(* parse_sensor_data                                                       *)
(***************************************************************************)
PrefTEMP == <<"T", "E", "M", "P", ":">>
PrefHUM == <<"H", "U", "M", ":">>
PrefSTATUS == <<"S", "T", "A", "T", "U", "S", ":">>

Zero == [m |-> 0, e |-> 0]

\* sensor_data = {} : the dict as the set of its keys and a slot per key
\* (the slot of an absent key is never read).
EmptyDict == [keys |-> {}, temperature |-> Zero, humidity |-> Zero, status |-> 0]

\* variant: a key already in the dict keeps its first value
DictSetFirst(d, k, v) ==
    IF k \in d.keys THEN d ELSE [[d EXCEPT ![k] = v] EXCEPT !.keys = d.keys \cup {k}]

\* sensor_data[k] = v
DictSet(d, k, v) == [[d EXCEPT ![k] = v] EXCEPT !.keys = d.keys \cup {k}]

\* The value parse_sensor_data returns: a dict, or None.
None == [isNone |-> TRUE, d |-> EmptyDict]
Some(d) == [isNone |-> FALSE, d |-> d]

\* The state of the try block: the dict so far, or raised.
Raised == [raised |-> TRUE, d |-> EmptyDict]
Going(d) == [raised |-> FALSE, d |-> d]

\* variant: a value that does not convert is skipped and the loop goes on
AssignSkipBad(d, k, r) == IF r.err THEN Going(d) ELSE Going(DictSet(d, k, r.val))

\* sensor_data[k] = conv(...) : the assignment, unless the conversion raises
Assign(d, k, r) == IF r.err THEN Raised ELSE Going(DictSet(d, k, r.val))

\* variant: a token with an unknown key aborts the parse
ParsePartStrict(st, part) ==
    IF st.raised THEN st
    ELSE IF StartsWith(part, PrefTEMP)
    THEN Assign(st.d, "temperature", PyFloat(Slice(part, 5)))
    ELSE IF StartsWith(part, PrefHUM)
    THEN Assign(st.d, "humidity", PyFloat(Slice(part, 4)))
    ELSE IF StartsWith(part, PrefSTATUS)
    THEN Assign(st.d, "status", PyInt(Slice(part, 7)))
    ELSE Raised

\* One pass of the for-loop body over `part`.
ParsePart(st, part) ==
    IF st.raised THEN st
    ELSE IF StartsWith(part, PrefTEMP)
    THEN Assign(st.d, "temperature", PyFloat(Slice(part, 5)))
    ELSE IF StartsWith(part, PrefHUM)
    THEN Assign(st.d, "humidity", PyFloat(Slice(part, 4)))
    ELSE IF StartsWith(part, PrefSTATUS)
    THEN Assign(st.d, "status", PyInt(Slice(part, 7)))
    ELSE st

RECURSIVE ParseParts(_, _)
ParseParts(st, parts) ==
    IF parts = <<>> THEN st ELSE ParseParts(ParsePart(st, Head(parts)), Tail(parts))

\* variant: one of the two keys is enough for a reading
parse_sensor_data_either(data_string) ==
    LET parts == Split(Strip(data_string))
        st == ParseParts(Going(EmptyDict), parts)
    IN  IF st.raised THEN None
        ELSE IF "temperature" \in st.d.keys \/ "humidity" \in st.d.keys THEN Some(st.d)
        ELSE None

\* try: ... if 'temperature' in sensor_data and 'humidity' in sensor_data:
\* return sensor_data; except Exception: log; return None
parse_sensor_data(data_string) ==
    LET parts == Split(Strip(data_string))
        st == ParseParts(Going(EmptyDict), parts)
    IN  IF st.raised THEN None
        ELSE IF "temperature" \in st.d.keys /\ "humidity" \in st.d.keys THEN Some(st.d)
        ELSE None

(***************************************************************************)
(* Lines the serial channel delivers                                       *)
(***************************************************************************)
\* A token of a response line: its text, the key it carries ("other" for
\* a key the parser does not know), whether its value is a literal of the
\* key's type, and the number m / 10^e the literal denotes.
Token(text, key, ok, val) == [text |-> text, key |-> key, ok |-> ok, val |-> val]
Dec(m, e) == [m |-> m, e |-> e]

TokTemp == Token(PrefTEMP \o <<"2", "3", ".", "5">>, "TEMP", TRUE, Dec(235, 1))
TokTempInt == Token(PrefTEMP \o <<"7">>, "TEMP", TRUE, Dec(7, 0))
TokTempBad == Token(PrefTEMP \o <<"a", "b", "c">>, "TEMP", FALSE, Dec(0, 0))
TokHum == Token(PrefHUM \o <<"6", "0", ".", "2">>, "HUM", TRUE, Dec(602, 1))
TokHumNeg == Token(PrefHUM \o <<"-", ".", "5">>, "HUM", TRUE, Dec(-5, 1))
TokHumEmpty == Token(PrefHUM, "HUM", FALSE, Dec(0, 0))
TokStatus == Token(PrefSTATUS \o <<"1">>, "STATUS", TRUE, Dec(1, 0))
TokStatusTwo == Token(PrefSTATUS \o <<"2">>, "STATUS", TRUE, Dec(2, 0))
TokStatusBad == Token(PrefSTATUS \o <<"1", ".", "5">>, "STATUS", FALSE, Dec(0, 0))
TokOther == Token(<<"X", ":", "9">>, "other", TRUE, Dec(0, 0))
TokLookAlike == Token(<<"T", "E", "M", "P", "S", ":", "4">>, "other", TRUE, Dec(0, 0))

TokenPool ==
    {TokTemp, TokTempInt, TokTempBad, TokHum, TokHumNeg, TokHumEmpty,
     TokStatus, TokStatusTwo, TokStatusBad, TokOther, TokLookAlike}

RECURSIVE Join(_, _)
Join(toks, sep) ==
    IF toks = <<>> THEN <<>>
    ELSE IF Len(toks) = 1 THEN Head(toks).text
    ELSE Head(toks).text \o sep \o Join(Tail(toks), sep)

\* a response line as readline() returns it: leading blanks, the tokens
\* with a separator between them, and the line end
Render(lead, toks, sep, eol) == lead \o Join(toks, sep) \o eol

Line(toks) == Render(<<>>, toks, <<" ">>, <<"\n">>)

\* the blanks a line may start with, stand between tokens, and end with
Leads == {<<>>, <<" ">>}
Separators == {<<" ">>, <<"\t", " ">>}
LineEnds == {<<"\n">>, <<"\r", "\n">>}

\* what readline().decode() hands to run(): a few response lines of the MCU
\* and the empty string of a read that timed out
SampleLines ==
    {Line(<<TokTemp, TokHum, TokStatus>>),
     Line(<<TokHum>>),
     Line(<<TokTempBad, TokHum>>),
     <<>>}

(***************************************************************************)
(* State                                                                   *)
(***************************************************************************)
VARIABLES
    pc,            \* position of each thread: pc.main in run(), pc.ext in a caller of stop()
    tokens,        \* the tokens the MCU put on the line under parse_sensor_data
    running,       \* self.running
    serial,        \* self.serial_conn: "None", "Open" or "Closed"
    loopRunning,   \* the bus client's network thread runs (loop_start .. loop_stop)
    data,          \* run(): data
    sensor_data,   \* run(): sensor_data
    timestamp,     \* publish_data(): timestamp
    now,           \* the last value datetime.now() returned (each call returns a later one)
    uartRes,       \* what setup_uart() returned: "pending", "ok", "fail"
    mqttRes,       \* what setup_mqtt() returned: "pending", "ok", "fail"
    connectCalls,  \* calls of mqtt_client.connect
    cycles,        \* calls of request_sensor_reading
    everRead,      \* serial_conn.readline has been called
    cyclePubs,     \* publish calls on the reading topics in the current cycle
    everPublished, \* publish has been called on a reading topic
    statusLog,     \* publish calls on the status topic, in order
    offline,       \* per thread, how its publish of "offline" ended
    notifs,        \* notifications the bus client has delivered
    okNotifs,      \* connect notifications with rc = 0
    drops,         \* disconnect notifications
    disconnects,   \* calls of mqtt_client.disconnect
    closeCalls,    \* calls of serial_conn.close
    closeEarly,    \* a close was called before any disconnect
    intr,          \* KeyboardInterrupt: "none", "in_try", "outside"
    reqsAfterStop, \* request commands sent with self.running false
    cycleFails,    \* the steps that failed in the current cycle
    prevFailed,    \* a step failed in the cycle before
    extStops       \* calls of stop() from outside run()

vars ==
    <<pc, tokens, running, serial, loopRunning, data, sensor_data, timestamp, now,
      uartRes, mqttRes, connectCalls, cycles, everRead, cyclePubs, everPublished,
      statusLog, offline, notifs, okNotifs, drops, disconnects, closeCalls,
      closeEarly, intr, reqsAfterStop, cycleFails, prevFailed, extStops>>

\* groups for UNCHANGED
cycleVars == <<data, sensor_data, timestamp, now, cycles, everRead, cyclePubs,
               everPublished, reqsAfterStop, cycleFails, prevFailed>>
setupVars == <<uartRes, mqttRes, connectCalls>>
busVars == <<notifs, okNotifs, drops>>
stopVars == <<disconnects, closeCalls, closeEarly, offline>>

Threads == {"main", "ext"}

\* the statements of the try block of run()
TryPcs == {"while", "request", "sleep1", "read", "parse", "publish_temp",
           "publish_hum", "sleep4"}
\* inside a cycle, after the request command and before the cycle boundary
MidCycle == TryPcs \ {"while", "request"}
\* before the try block
PreTryPcs == {"run", "setup_mqtt", "sleep2"}

\* What a call into the bus client or the serial port can do: complete,
\* report an error code, or raise.
PublishOutcomes == {"sent", "error", "raise"}

NoData == <<>>

Init ==
    /\ pc = [main |-> "run", ext |-> "idle"]
    /\ tokens = <<>>
    /\ running = TRUE
    /\ serial = "None"
    /\ loopRunning = FALSE
    /\ data = NoData
    /\ sensor_data = None
    /\ timestamp = 0
    /\ now = 0
    /\ uartRes = "pending"
    /\ mqttRes = "pending"
    /\ connectCalls = 0
    /\ cycles = 0
    /\ everRead = FALSE
    /\ cyclePubs = <<>>
    /\ everPublished = FALSE
    /\ statusLog = <<>>
    /\ offline = [t \in Threads |-> "none"]
    /\ notifs = 0
    /\ okNotifs = 0
    /\ drops = 0
    /\ disconnects = 0
    /\ closeCalls = 0
    /\ closeEarly = FALSE
    /\ intr = "none"
    /\ reqsAfterStop = 0
    /\ cycleFails = {}
    /\ prevFailed = FALSE
    /\ extStops = 0

Goto(t, l) == pc' = [pc EXCEPT ![t] = l] /\ UNCHANGED tokens

(***************************************************************************)
(* run(): setup                                                            *)
(***************************************************************************)
\* variant: run() goes on to setup_mqtt() whatever setup_uart() returned
RunAfterUartUnchecked(ok) == "setup_mqtt"

\* if not self.setup_uart(): return
RunAfterUart(ok) == IF ok THEN "setup_mqtt" ELSE "returned"

\* setup_uart(): serial.Serial(...) opens the port or raises SerialException
SetupUart ==
    /\ pc.main = "run"
    /\ \E ok \in BOOLEAN :
        /\ serial' = IF ok THEN "Open" ELSE serial
        /\ uartRes' = IF ok THEN "ok" ELSE "fail"
        /\ Goto("main", RunAfterUart(ok))
    /\ UNCHANGED <<running, loopRunning, mqttRes, connectCalls, statusLog, intr,
                   extStops>>
    /\ UNCHANGED <<cycleVars, busVars, stopVars>>

\* variant: run() goes on to the loop whatever setup_mqtt() returned
RunAfterMqttUnchecked(ok) == "sleep2"

\* if not self.setup_mqtt(): return
\* variant: run() tears down through stop() when setup_mqtt() failed
RunAfterMqttCleanup(ok) == IF ok THEN "sleep2" ELSE "stop_flag"

RunAfterMqtt(ok) == IF ok THEN "sleep2" ELSE "returned"

\* setup_mqtt(): connect() then loop_start(); an exception of connect()
\* is caught and reported as False
SetupMqtt ==
    /\ pc.main = "setup_mqtt"
    /\ \E ok \in BOOLEAN :
        /\ connectCalls' = connectCalls + 1
        /\ loopRunning' = ok
        /\ mqttRes' = IF ok THEN "ok" ELSE "fail"
        /\ Goto("main", RunAfterMqtt(ok))
    /\ UNCHANGED <<running, serial, uartRes, statusLog, intr, extStops>>
    /\ UNCHANGED <<cycleVars, busVars, stopVars>>

\* time.sleep(n)
Sleep(from, to) ==
    /\ pc.main = from
    /\ Goto("main", to)
    /\ UNCHANGED <<running, serial, loopRunning, data, sensor_data, timestamp, now,
                   cycles, everRead, cyclePubs, everPublished, reqsAfterStop,
                   cycleFails, prevFailed, statusLog, intr, extStops>>
    /\ UNCHANGED <<setupVars, busVars, stopVars>>

\* time.sleep(2)  # Give MQTT time to connect
SleepConnect == Sleep("sleep2", "while")

(***************************************************************************)
(* run(): the polling loop                                                 *)
(***************************************************************************)
\* variant: while True:
WhileTargetForever(flag) == "request"

\* while self.running:
WhileTarget(flag) == IF flag THEN "request" ELSE "returned"

\* variant: the loop waits for a successful connect notification
WhileCheckWhenConnected ==
    /\ pc.main = "while"
    /\ okNotifs > 0
    /\ running => cycles < MaxCycles
    /\ Goto("main", WhileTarget(running))
    /\ IF WhileTarget(running) = "request"
       THEN UNCHANGED <<data, sensor_data, timestamp, cyclePubs, cycleFails>>
       ELSE /\ data' = NoData
            /\ sensor_data' = None
            /\ timestamp' = 0
            /\ cyclePubs' = <<>>
            /\ cycleFails' = {}
    /\ UNCHANGED <<running, serial, loopRunning, statusLog, intr, extStops, now, cycles,
                   everRead, everPublished, reqsAfterStop, prevFailed>>
    /\ UNCHANGED <<setupVars, busVars, stopVars>>

\* The locals of the last cycle are dead once the loop is left.
WhileCheck ==
    /\ pc.main = "while"
    /\ running => cycles < MaxCycles
    /\ Goto("main", WhileTarget(running))
    /\ IF WhileTarget(running) = "request"
       THEN UNCHANGED <<data, sensor_data, timestamp, cyclePubs, cycleFails>>
       ELSE /\ data' = NoData
            /\ sensor_data' = None
            /\ timestamp' = 0
            /\ cyclePubs' = <<>>
            /\ cycleFails' = {}
    /\ UNCHANGED <<running, serial, loopRunning, statusLog, intr, extStops, now, cycles,
                   everRead, everPublished, reqsAfterStop, prevFailed>>
    /\ UNCHANGED <<setupVars, busVars, stopVars>>

\* request_sensor_reading(): serial_conn.write(b'R'); an exception is logged.
\* A write on a closed port raises.  A new cycle begins: the locals of the
\* cycle before are dead (each is assigned before it is read again).
RequestSensorReading ==
    /\ pc.main = "request"
    /\ \E ok \in (IF serial = "Open" THEN BOOLEAN ELSE {FALSE}) :
        cycleFails' = IF ok THEN {} ELSE {"write"}
    /\ prevFailed' = (cycleFails # {})
    /\ cycles' = cycles + 1
    /\ cyclePubs' = <<>>
    /\ reqsAfterStop' = IF running THEN reqsAfterStop ELSE reqsAfterStop + 1
    /\ Goto("main", "sleep1")
    /\ data' = NoData
    /\ sensor_data' = None
    /\ timestamp' = 0
    /\ UNCHANGED <<running, serial, loopRunning, now, everRead, everPublished,
                   statusLog, intr, extStops>>
    /\ UNCHANGED <<setupVars, busVars, stopVars>>

\* time.sleep(1)  # Wait for MCU to process
SleepSettle == Sleep("sleep1", "read")

\* variant: a cycle that read nothing publishes all the same
AfterReadUnchecked(d) == IF d # <<>> THEN "parse" ELSE "publish_temp"

\* if data:
AfterRead(d) == IF d # <<>> THEN "parse" ELSE "sleep4"

\* read_sensor_data(): None when nothing waits or when in_waiting, readline
\* or decode raises (a closed port raises); else the decoded line
ReadSensorData ==
    /\ pc.main = "read"
    /\ \/ \* in_waiting is 0
          /\ serial = "Open"
          /\ UNCHANGED <<everRead, cycleFails>>
          /\ data' = NoData
       \/ \* in_waiting or readline raises (always so on a closed port)
          /\ UNCHANGED everRead
          /\ cycleFails' = cycleFails \cup {"read"}
          /\ data' = NoData
       \/ \* readline() returns bytes that do not decode
          /\ serial = "Open"
          /\ everRead' = TRUE
          /\ cycleFails' = cycleFails \cup {"read"}
          /\ data' = NoData
       \/ \* readline().decode('utf-8')
          /\ serial = "Open"
          /\ everRead' = TRUE
          /\ UNCHANGED cycleFails
          /\ data' \in SampleLines
    /\ Goto("main", AfterRead(data'))
    /\ UNCHANGED <<running, serial, loopRunning, sensor_data, timestamp, now, cycles,
                   cyclePubs, everPublished, reqsAfterStop, prevFailed, statusLog,
                   intr, extStops>>
    /\ UNCHANGED <<setupVars, busVars, stopVars>>

\* variant: publish_data() is called whatever the parser returned
AfterParseUnchecked(sd) == "publish_temp"

\* if sensor_data:
AfterParse(sd) == IF ~sd.isNone THEN "publish_temp" ELSE "sleep4"

\* sensor_data = self.parse_sensor_data(data)
ParseStep ==
    /\ pc.main = "parse"
    /\ sensor_data' = parse_sensor_data(data)
    /\ cycleFails' = IF sensor_data'.isNone THEN cycleFails \cup {"parse"} ELSE cycleFails
    /\ Goto("main", AfterParse(sensor_data'))
    /\ UNCHANGED <<running, serial, loopRunning, data, timestamp, now, cycles, everRead,
                   cyclePubs, everPublished, reqsAfterStop, prevFailed, statusLog,
                   intr, extStops>>
    /\ UNCHANGED <<setupVars, busVars, stopVars>>

\* the message publish_data() builds for the temperature topic; ts is the
\* timestamp captured on entry, clock what datetime.now() would return now
TempPayload(sd, ts, clock) == [topic |-> "temperature", value |-> sd.temperature, timestamp |-> ts]

\* variant: the humidity message reads the clock again
HumPayloadFreshClock(sd, ts, clock) ==
    [topic |-> "humidity", value |-> sd.humidity, timestamp |-> clock]

\* the message publish_data() builds for the humidity topic
HumPayload(sd, ts, clock) == [topic |-> "humidity", value |-> sd.humidity, timestamp |-> ts]

Published(msg, o) == [msg |-> msg, outcome |-> o]

\* publish_data(): timestamp = datetime.now(); publish the temperature.
\* An exception ends publish_data (it is logged).
PublishTemp ==
    /\ pc.main = "publish_temp"
    /\ now' = now + 1
    /\ timestamp' = now'
    /\ \E o \in PublishOutcomes :
        /\ cyclePubs' = Append(cyclePubs, Published(TempPayload(sensor_data.d, timestamp', now' + 1), o))
        /\ cycleFails' = IF o = "sent" THEN cycleFails ELSE cycleFails \cup {"publish_temp"}
        /\ Goto("main", IF o = "raise" THEN "sleep4" ELSE "publish_hum")
    /\ everPublished' = TRUE
    /\ UNCHANGED <<running, serial, loopRunning, data, sensor_data, cycles, everRead,
                   reqsAfterStop, prevFailed, statusLog, intr, extStops>>
    /\ UNCHANGED <<setupVars, busVars, stopVars>>

\* publish_data(): publish the humidity
PublishHum ==
    /\ pc.main = "publish_hum"
    /\ \E o \in PublishOutcomes :
        /\ cyclePubs' = Append(cyclePubs, Published(HumPayload(sensor_data.d, timestamp, now + 1), o))
        /\ cycleFails' = IF o = "sent" THEN cycleFails ELSE cycleFails \cup {"publish_hum"}
    /\ everPublished' = TRUE
    /\ Goto("main", "sleep4")
    /\ UNCHANGED <<running, serial, loopRunning, data, sensor_data, timestamp, now,
                   cycles, everRead, reqsAfterStop, prevFailed, statusLog, intr,
                   extStops>>
    /\ UNCHANGED <<setupVars, busVars, stopVars>>

\* time.sleep(4)  # Wait before next reading
SleepCycle == Sleep("sleep4", "while")

(***************************************************************************)
(* KeyboardInterrupt                                                       *)
(***************************************************************************)
\* The interrupt signal reaches the main thread inside the try block:
\* except KeyboardInterrupt: self.stop()
\* The locals of the abandoned cycle are dead from here on.
Interrupt ==
    /\ intr = "none"
    /\ pc.main \in TryPcs
    /\ intr' = "in_try"
    /\ Goto("main", "stop_flag")
    /\ data' = NoData
    /\ sensor_data' = None
    /\ timestamp' = 0
    /\ cyclePubs' = <<>>
    /\ cycleFails' = {}
    /\ UNCHANGED <<running, serial, loopRunning, statusLog, extStops, now, cycles,
                   everRead, everPublished, reqsAfterStop, prevFailed>>
    /\ UNCHANGED <<setupVars, busVars, stopVars>>

\* The interrupt signal reaches the main thread before the try block:
\* no handler, the exception leaves run()
InterruptBeforeTry ==
    /\ intr = "none"
    /\ pc.main \in PreTryPcs
    /\ intr' = "outside"
    /\ Goto("main", "raised")
    /\ UNCHANGED <<running, serial, loopRunning, statusLog, extStops>>
    /\ UNCHANGED <<cycleVars, setupVars, busVars, stopVars>>

(***************************************************************************)
(* stop(), run by thread t                                                 *)
(***************************************************************************)
\* where thread t goes when stop() returns, and when an exception leaves it
Returned(t) == IF t = "main" THEN "returned" ELSE "idle"
Escaped(t) == IF t = "main" THEN "raised" ELSE "idle"

\* a caller outside run() calls stop()
ExtCallStop ==
    /\ pc.ext = "idle"
    /\ extStops < MaxExtStops
    /\ extStops' = extStops + 1
    /\ Goto("ext", "stop_flag")
    /\ UNCHANGED <<running, serial, loopRunning, statusLog, intr>>
    /\ UNCHANGED <<cycleVars, setupVars, busVars, stopVars>>

\* self.running = False
StopSetFlag(t) ==
    /\ pc[t] = "stop_flag"
    /\ running' = FALSE
    /\ Goto(t, "stop_pub")
    /\ UNCHANGED <<serial, loopRunning, statusLog, intr, extStops>>
    /\ UNCHANGED <<cycleVars, setupVars, busVars, stopVars>>

\* where stop() continues after publish(MQTT_TOPIC_STATUS, "offline"):
\* the call is not in a try block, its return value is not looked at
AfterOffline(t, o) == IF o = "raise" THEN Escaped(t) ELSE "stop_loop"

\* self.mqtt_client.publish(MQTT_TOPIC_STATUS, "offline")
StopPublishOffline(t) ==
    /\ pc[t] = "stop_pub"
    /\ statusLog' = Append(statusLog, [payload |-> "offline", by |-> t])
    /\ \E o \in PublishOutcomes :
        /\ offline' = [offline EXCEPT ![t] = o]
        /\ Goto(t, AfterOffline(t, o))
    /\ UNCHANGED <<running, serial, loopRunning, intr, extStops, disconnects,
                   closeCalls, closeEarly>>
    /\ UNCHANGED <<cycleVars, setupVars, busVars>>

\* self.mqtt_client.loop_stop()
StopLoopStop(t) ==
    /\ pc[t] = "stop_loop"
    /\ loopRunning' = FALSE
    /\ Goto(t, "stop_disc")
    /\ UNCHANGED <<running, serial, statusLog, intr, extStops>>
    /\ UNCHANGED <<cycleVars, setupVars, busVars, stopVars>>

\* variant: stop() without the disconnect
StopWithoutDisconnect(t) ==
    /\ pc[t] = "stop_disc"
    /\ Goto(t, "stop_chk")
    /\ UNCHANGED <<running, serial, loopRunning, statusLog, intr, extStops>>
    /\ UNCHANGED <<cycleVars, setupVars, busVars, stopVars>>

\* self.mqtt_client.disconnect()
StopDisconnect(t) ==
    /\ pc[t] = "stop_disc"
    /\ disconnects' = disconnects + 1
    /\ Goto(t, "stop_chk")
    /\ UNCHANGED <<running, serial, loopRunning, statusLog, intr, extStops,
                   closeCalls, closeEarly, offline>>
    /\ UNCHANGED <<cycleVars, setupVars, busVars>>

\* variant: stop() closes the port without looking at it
StopCheckAlwaysCloses(t) ==
    /\ pc[t] = "stop_chk"
    /\ Goto(t, "stop_close")
    /\ UNCHANGED <<running, serial, loopRunning, statusLog, intr, extStops>>
    /\ UNCHANGED <<cycleVars, setupVars, busVars, stopVars>>

\* if self.serial_conn and self.serial_conn.is_open:
StopCheckOpen(t) ==
    /\ pc[t] = "stop_chk"
    /\ Goto(t, IF serial = "Open" THEN "stop_close" ELSE Returned(t))
    /\ UNCHANGED <<running, serial, loopRunning, statusLog, intr, extStops>>
    /\ UNCHANGED <<cycleVars, setupVars, busVars, stopVars>>

\* self.serial_conn.close()
StopClose(t) ==
    /\ pc[t] = "stop_close"
    /\ serial' = "Closed"
    /\ closeCalls' = closeCalls + 1
    /\ closeEarly' = (closeEarly \/ disconnects = 0)
    /\ Goto(t, Returned(t))
    /\ UNCHANGED <<running, loopRunning, statusLog, intr, extStops, disconnects,
                   offline>>
    /\ UNCHANGED <<cycleVars, setupVars, busVars>>

(***************************************************************************)
(* Callbacks, run by the bus client's network thread                       *)
(***************************************************************************)
\* variant: on_mqtt_connect publishes without looking at rc
ConnectPublishesAlways(rc) == TRUE

\* if rc == 0:
ConnectPublishes(rc) == rc = 0

\* result codes of a notification: success and one failure code
ResultCodes == {0, 5}

\* on_mqtt_connect(client, userdata, flags, rc).  How the publish ends
\* changes nothing: its return value is dropped and the callback is over.
OnMqttConnect ==
    /\ loopRunning
    /\ notifs < MaxNotifs
    /\ notifs' = notifs + 1
    /\ \E rc \in ResultCodes :
        /\ okNotifs' = IF rc = 0 THEN okNotifs + 1 ELSE okNotifs
        /\ statusLog' = IF ConnectPublishes(rc)
                        THEN Append(statusLog, [payload |-> "online", by |-> "bus"])
                        ELSE statusLog
    /\ UNCHANGED <<pc, tokens, running, serial, loopRunning, intr, extStops, drops>>
    /\ UNCHANGED <<cycleVars, setupVars, stopVars>>

\* variant: on_mqtt_disconnect connects again
OnMqttDisconnectReconnects ==
    /\ loopRunning
    /\ notifs < MaxNotifs
    /\ \E rc \in ResultCodes :
        /\ notifs' = notifs + 1
        /\ drops' = drops + 1
        /\ connectCalls' = IF rc # 0 THEN connectCalls + 1 ELSE connectCalls
    /\ UNCHANGED <<pc, tokens, running, serial, loopRunning, statusLog, okNotifs,
                   intr, extStops, uartRes, mqttRes>>
    /\ UNCHANGED <<cycleVars, stopVars>>

\* on_mqtt_disconnect(client, userdata, rc): logs a warning when rc != 0
OnMqttDisconnect ==
    /\ loopRunning
    /\ notifs < MaxNotifs
    /\ \E rc \in ResultCodes :
        /\ notifs' = notifs + 1
        /\ drops' = drops + 1
    /\ UNCHANGED <<pc, tokens, running, serial, loopRunning, statusLog, okNotifs,
                   intr, extStops>>
    /\ UNCHANGED <<cycleVars, setupVars, stopVars>>

(***************************************************************************)
(* The collector                                                           *)
(***************************************************************************)
Next ==
    \/ SetupUart
    \/ SetupMqtt
    \/ SleepConnect
    \/ WhileCheck
    \/ RequestSensorReading
    \/ SleepSettle
    \/ ReadSensorData
    \/ ParseStep
    \/ PublishTemp
    \/ PublishHum
    \/ SleepCycle
    \/ Interrupt
    \/ InterruptBeforeTry
    \/ ExtCallStop
    \/ \E t \in Threads : StopSetFlag(t)
    \/ \E t \in Threads : StopPublishOffline(t)
    \/ \E t \in Threads : StopLoopStop(t)
    \/ \E t \in Threads : StopDisconnect(t)
    \/ \E t \in Threads : StopCheckOpen(t)
    \/ \E t \in Threads : StopClose(t)
    \/ OnMqttConnect
    \/ OnMqttDisconnect

Spec == Init /\ [][Next]_vars

(***************************************************************************)
(* parse_sensor_data on its own: every line of up to MaxTokens tokens      *)
(***************************************************************************)
RECURSIVE SeqsUpTo(_, _)
SeqsUpTo(S, n) ==
    IF n = 0 THEN {<<>>}
    ELSE LET shorter == SeqsUpTo(S, n - 1) IN
         shorter \cup {Append(q, x) : q \in {r \in shorter : Len(r) = n - 1}, x \in S}

InitParser ==
    /\ tokens \in SeqsUpTo(TokenPool, MaxTokens)
    /\ \E lead \in Leads, sep \in Separators, eol \in LineEnds :
        data = Render(lead, tokens, sep, eol)
    /\ pc = [main |-> "parse_call", ext |-> "idle"]
    /\ running = TRUE
    /\ serial = "Open"
    /\ loopRunning = TRUE
    /\ sensor_data = None
    /\ timestamp = 0
    /\ now = 0
    /\ uartRes = "ok"
    /\ mqttRes = "ok"
    /\ connectCalls = 1
    /\ cycles = 1
    /\ everRead = TRUE
    /\ cyclePubs = <<>>
    /\ everPublished = FALSE
    /\ statusLog = <<>>
    /\ offline = [t \in Threads |-> "none"]
    /\ notifs = 0
    /\ okNotifs = 0
    /\ drops = 0
    /\ disconnects = 0
    /\ closeCalls = 0
    /\ closeEarly = FALSE
    /\ intr = "none"
    /\ reqsAfterStop = 0
    /\ cycleFails = {}
    /\ prevFailed = FALSE
    /\ extStops = 0

\* sensor_data = self.parse_sensor_data(data)
ParseCall ==
    /\ pc.main = "parse_call"
    /\ sensor_data' = parse_sensor_data(data)
    /\ Goto("main", "parse_done")
    /\ UNCHANGED <<running, serial, loopRunning, data, timestamp, now, cycles, everRead,
                   cyclePubs, everPublished, reqsAfterStop, cycleFails, prevFailed,
                   statusLog, intr, extStops>>
    /\ UNCHANGED <<setupVars, busVars, stopVars>>

NextParser == ParseCall

SpecParser == InitParser /\ [][NextParser]_vars

(***************************************************************************)
(* Properties                                                              *)
(***************************************************************************)
MainOver == pc.main \in {"returned", "raised"}

\* C1: mqtt_client.connect is called only once the serial port has been
\* opened; when setup_uart() fails, connect is never called and run() has
\* returned.
C1_ConnectAfterSerialOpen ==
    /\ connectCalls > 0 => (uartRes = "ok" /\ serial # "None")
    /\ uartRes = "fail" => (connectCalls = 0 /\ pc.main = "returned")

C1_Witness == uartRes = "fail" /\ pc.main = "returned" /\ connectCalls = 0

\* C2: when setup_uart() or setup_mqtt() fails, run() has returned and no
\* request command was written, no line read, nothing published on the
\* temperature or humidity topic.
C2_SetupFailureNeverPolls ==
    (uartRes = "fail" \/ mqttRes = "fail") =>
        /\ pc.main = "returned"
        /\ cycles = 0
        /\ ~everRead
        /\ ~everPublished
        /\ cyclePubs = <<>>

C2_Witness == uartRes = "ok" /\ mqttRes = "fail" /\ pc.main = "returned" /\ serial = "Open"

\* C3 as stated: whenever the polling loop was entered and run() has
\* returned, by the run flag or by an interrupt, the disconnect and then
\* the serial close have happened.
C3_TeardownBeforeAnyReturn ==
    (pc.main = "returned" /\ cycles >= 1) =>
        (disconnects >= 1 /\ closeCalls >= 1 /\ ~closeEarly)

\* C3 amended: when run() returns after a KeyboardInterrupt received in
\* the polling loop, the disconnect and then the serial close have
\* happened, the disconnect first.
C3_TeardownOnInterrupt ==
    (pc.main = "returned" /\ intr = "in_try") =>
        (disconnects >= 1 /\ closeCalls >= 1 /\ serial = "Closed" /\ ~closeEarly)

C3_Witness ==
    pc.main = "returned" /\ intr = "in_try" /\ cycles >= 1 /\ closeCalls = 1 /\ extStops = 0

\* C4: after an interrupt received while the loop is polling, once run()
\* is over "offline" has been published to the status topic and the serial
\* handle has been closed exactly once.
C4_OfflineAndClosedOnce ==
    (intr = "in_try" /\ MainOver) =>
        /\ \E i \in 1..Len(statusLog) : statusLog[i].payload = "offline"
        /\ closeCalls = 1

\* C5 as stated: a cycle that has sent its request command always goes on
\* to the end of its inter-cycle delay: from inside a cycle the main thread
\* only moves to the next statement of the loop.
C5_CycleNeverCutShort ==
    [][pc.main \in MidCycle => pc'.main \in MidCycle \cup {"while"}]_vars

\* C5 amended: no step other than a KeyboardInterrupt takes the main
\* thread out of a cycle, whatever stop() calls other threads make; with
\* the run flag false at the cycle boundary the loop ends without another
\* request command; and at most one request command is sent after the
\* flag was cleared.
C5_FlagObservedAtBoundary ==
    /\ [][/\ (pc.main \in MidCycle /\ intr' = intr) => pc'.main \in MidCycle \cup {"while"}
          /\ (pc.main = "while" /\ ~running /\ pc'.main # "while" /\ intr' = intr) =>
                 (pc'.main = "returned" /\ cycles' = cycles)]_vars
    /\ [](reqsAfterStop <= 1)

C5_Witness ==
    pc.main = "returned" /\ intr = "none" /\ ~running /\ reqsAfterStop = 1 /\ cycles >= 1

\* a cycle in which a line was read and parsed to a reading and both
\* publish calls succeeded, at the start of its inter-cycle delay
SuccessfulCycle ==
    /\ pc.main = "sleep4"
    /\ ~sensor_data.isNone
    /\ cycleFails \cap {"publish_temp", "publish_hum"} = {}

\* C6: a successful cycle makes exactly two reading publishes, the first
\* to the temperature topic and the second to the humidity topic, with one
\* timestamp and with the temperature and humidity of the reading parsed
\* from the line read in that cycle.
C6_TwoPublishesSharedTimestamp ==
    SuccessfulCycle =>
        /\ Len(cyclePubs) = 2
        /\ cyclePubs[1].msg.topic = "temperature"
        /\ cyclePubs[2].msg.topic = "humidity"
        /\ cyclePubs[1].msg.timestamp = cyclePubs[2].msg.timestamp
        /\ cyclePubs[1].msg.timestamp = timestamp
        /\ sensor_data = parse_sensor_data(data)
        /\ cyclePubs[1].msg.value = sensor_data.d.temperature
        /\ cyclePubs[2].msg.value = sensor_data.d.humidity
        /\ cyclePubs[1].msg.value = TokTemp.val
        /\ cyclePubs[2].msg.value = TokHum.val

C6_Witness ==
    /\ SuccessfulCycle
    /\ Len(cyclePubs) = 2
    /\ cyclePubs[1].outcome = "sent"
    /\ cyclePubs[2].outcome = "sent"

\* C7 as stated: in a cycle in which the write, the read, the parse or a
\* publish failed, no message of the cycle's reading is published.
C7_FailedCycleDropsReading ==
    cycleFails # {} => \A i \in 1..Len(cyclePubs) : cyclePubs[i].outcome # "sent"

\* a step of the cycle failed
FailStep == cycleFails' # cycleFails /\ cycleFails' # {}

\* C7 amended: a failing write, read, parse or publish changes neither the
\* run flag nor the bus and serial connections, starts no teardown and
\* leaves the main thread in the cycle, on its way to the next flag check;
\* after a read error or a parse rejection nothing is published in that
\* cycle.
C7_FailuresRecoveredLocally ==
    /\ [][FailStep =>
            /\ running' = running
            /\ serial' = serial
            /\ loopRunning' = loopRunning
            /\ statusLog' = statusLog
            /\ disconnects' = disconnects
            /\ closeCalls' = closeCalls
            /\ pc'.main \in MidCycle]_vars
    /\ [](cycleFails \cap {"read", "parse"} # {} => cyclePubs = <<>>)

C7_Witness == prevFailed /\ running /\ cycles >= 2 /\ pc.main = "sleep1"

\* C8: when the publish of "offline" in stop() fails, nothing is
\* escalated: no exception leaves run(), and when run() returns the bus
\* connection has been released and the serial channel closed.
C8_OfflineFailureNotEscalated ==
    (intr = "in_try" /\ offline.main \in {"error", "raise"}) =>
        /\ pc.main # "raised"
        /\ pc.main = "returned" => (disconnects >= 1 /\ serial = "Closed")

RECURSIVE CountOnline(_)
CountOnline(log) ==
    IF log = <<>> THEN 0
    ELSE (IF Head(log).payload = "online" THEN 1 ELSE 0) + CountOnline(Tail(log))

\* C9: the publishes of "online" are exactly those of the connect
\* notifications with rc = 0: one per such notification, none for a
\* notification with rc # 0, none by setup_mqtt(), the loop or stop().
C9_OnlineOnlyOnConnectSuccess ==
    /\ CountOnline(statusLog) = okNotifs
    /\ \A i \in 1..Len(statusLog) :
          statusLog[i].payload = "online" <=> statusLog[i].by = "bus"

C9_Witness ==
    /\ okNotifs = 1
    /\ notifs = 2
    /\ drops = 0
    /\ cycles >= 1
    /\ CountOnline(statusLog) = 1

\* the tokens of the line with key k
KeyTokens(k) == {tokens[i] : i \in {j \in 1..Len(tokens) : tokens[j].key = k}}

\* every token with a key the parser knows carries a literal of its type
AllDecode == \A i \in 1..Len(tokens) : tokens[i].ok

\* C10: for a line whose TEMP, HUM and STATUS tokens all decode and which
\* holds a TEMP and a HUM token, parse_sensor_data returns a reading whose
\* temperature is the value of a TEMP token of the line and whose humidity
\* is the value of a HUM token of the line, wherever the tokens stand and
\* whatever unknown tokens and blanks stand between them.
C10_ReadingHasTokenValues ==
    (pc.main = "parse_done" /\ AllDecode /\ KeyTokens("TEMP") # {} /\ KeyTokens("HUM") # {}) =>
        /\ ~sensor_data.isNone
        /\ sensor_data.d.temperature \in {t.val : t \in KeyTokens("TEMP")}
        /\ sensor_data.d.humidity \in {t.val : t \in KeyTokens("HUM")}

C10_Witness ==
    /\ pc.main = "parse_done"
    /\ tokens = <<TokHumNeg, TokOther, TokTempInt>>
    /\ ~sensor_data.isNone
    /\ sensor_data.d.temperature = Dec(7, 0)
    /\ sensor_data.d.humidity = Dec(-5, 1)

\* C11: a line without a TEMP token or without a HUM token (the empty line,
\* a line of STATUS tokens only and a line of unknown tokens only among
\* them) makes parse_sensor_data return None.
C11_MissingKeyRejected ==
    (pc.main = "parse_done" /\ (KeyTokens("TEMP") = {} \/ KeyTokens("HUM") = {})) =>
        sensor_data.isNone

C11_Witness ==
    /\ pc.main = "parse_done"
    /\ tokens = <<TokTemp, TokStatus, TokOther>>
    /\ sensor_data.isNone

\* the tokens with a key the parser knows whose value does not convert
BadTokens == {i \in 1..Len(tokens) : tokens[i].key # "other" /\ ~tokens[i].ok}

\* C12: a line holding a TEMP, HUM or STATUS token whose value does not
\* convert to its numeric type makes parse_sensor_data return None, wherever
\* the token stands and whatever valid TEMP and HUM tokens stand beside it:
\* the call returns (None), it does not raise and it yields no partial
\* reading.
C12_BadValueRejectsLine ==
    (pc.main = "parse_done" /\ BadTokens # {}) => sensor_data = None

C12_Witness ==
    /\ pc.main = "parse_done"
    /\ tokens = <<TokTemp, TokHum, TokStatusBad>>
    /\ sensor_data = None

\* the value of the last token of the line with key k
LastVal(k) ==
    LET idx == {j \in 1..Len(tokens) : tokens[j].key = k}
    IN  tokens[CHOOSE j \in idx : \A i \in idx : i <= j].val

\* C15: when a key stands more than once on a line and every occurrence
\* converts, the reading carries the value of the last occurrence from the
\* left for each key, and nothing of the earlier ones.
C15_LastOccurrenceWins ==
    (pc.main = "parse_done" /\ AllDecode /\ KeyTokens("TEMP") # {} /\ KeyTokens("HUM") # {}) =>
        /\ ~sensor_data.isNone
        /\ sensor_data.d.temperature = LastVal("TEMP")
        /\ sensor_data.d.humidity = LastVal("HUM")
        /\ sensor_data.d.keys = {"temperature", "humidity"} \cup
                                 (IF KeyTokens("STATUS") # {} THEN {"status"} ELSE {})
        /\ (KeyTokens("STATUS") # {} => sensor_data.d.status = LastVal("STATUS").m)

C15_Witness ==
    /\ pc.main = "parse_done"
    /\ tokens = <<TokTemp, TokHum, TokTempInt>>
    /\ ~sensor_data.isNone
    /\ sensor_data.d.temperature = Dec(7, 0)
    /\ sensor_data.d.humidity = Dec(602, 1)

\* C13: a stop() that reaches its serial check when the port is already
\* closed, or was never opened, returns from the check: it does not call
\* close(), the port stays as it was, and no exception leaves the check.
C13_ClosedPortNotClosedAgain ==
    [][\A t \in Threads :
        (pc[t] = "stop_chk" /\ pc'[t] # "stop_chk" /\ serial # "Open") =>
            /\ pc'[t] = Returned(t)
            /\ pc'[t] # "stop_close"
            /\ serial' = serial
            /\ closeCalls' = closeCalls]_vars

\* two calls of stop() ran to their end and the port was closed once
C13_Witness ==
    /\ pc.main = "returned"
    /\ pc.ext = "idle"
    /\ extStops = 1
    /\ disconnects = 2
    /\ serial = "Closed"
    /\ closeCalls = 1

\* C14: the temperature and humidity messages of a cycle are published
\* only when, in that cycle, read_sensor_data returned a non-empty line and
\* parse_sensor_data returned a reading for that line; a cycle whose read
\* found nothing or failed, or whose line was rejected, reaches its final
\* sleep with nothing published.
C14_PublishOnlyAfterValidReading ==
    /\ (pc.main \in {"publish_temp", "publish_hum"} \/ cyclePubs # <<>>) =>
            /\ data # NoData
            /\ ~sensor_data.isNone
            /\ sensor_data = parse_sensor_data(data)
            /\ cycleFails \cap {"read", "parse"} = {}
    /\ (pc.main = "sleep4" /\ (data = NoData \/ sensor_data.isNone)) => cyclePubs = <<>>

\* a cycle that read a line with an unusable TEMP ends with nothing published
C14_Witness ==
    /\ pc.main = "sleep4"
    /\ data = Line(<<TokTempBad, TokHum>>)
    /\ sensor_data.isNone
    /\ cyclePubs = <<>>
    /\ everPublished

\* C16: when setup_uart() succeeded and setup_mqtt() failed, run() has
\* returned without entering stop(): it published no "offline", and, unless
\* stop() was called from outside, the port is still open, no disconnect and
\* no close was made and the status topic is empty.
C16_ConnectFailureLeavesPortOpen ==
    (uartRes = "ok" /\ mqttRes = "fail") =>
        /\ pc.main = "returned"
        /\ intr # "in_try"
        /\ offline.main = "none"
        /\ \A i \in 1..Len(statusLog) : statusLog[i].by # "main"
        /\ extStops = 0 =>
                /\ serial = "Open"
                /\ disconnects = 0
                /\ closeCalls = 0
                /\ statusLog = <<>>

C16_Witness ==
    /\ uartRes = "ok"
    /\ mqttRes = "fail"
    /\ connectCalls = 1
    /\ pc.main = "returned"
    /\ extStops = 0
    /\ serial = "Open"
    /\ disconnects = 0
    /\ statusLog = <<>>

\* C17: connect() is called at most once in a run, and a disconnect
\* notification changes nothing of the collector: no connect, no publish,
\* the run flag, the port, the network loop and the main thread's position
\* and locals stay as they were.
C17_NoReconnect ==
    /\ [](connectCalls <= 1)
    /\ [][drops' # drops =>
            UNCHANGED <<pc, running, serial, loopRunning, statusLog, okNotifs, intr,
                        extStops, cycleVars, setupVars, stopVars>>]_vars

\* the bus dropped the connection and the collector polls on, never having
\* connected again
C17_Witness ==
    /\ drops >= 1
    /\ connectCalls = 1
    /\ running
    /\ pc.main = "sleep4"
    /\ Len(cyclePubs) = 2

\* C18: on the status topic no "online" is published after an "offline"
\* of stop(), however the connect callback on the network thread and
\* stop() interleave.
C18_OfflineIsLastStatus ==
    \A i, j \in 1..Len(statusLog) :
        (i < j /\ statusLog[i].payload = "offline") => statusLog[j].payload # "online"

\* C19: once setup_uart() and setup_mqtt() returned success, no step of
\* the polling cycle waits for the bus: the wait after setup, the loop test,
\* the request command and the two publishes of a parsed reading can each
\* be taken in every state the main thread stands before them, whatever
\* connect notifications have or have not arrived.
C19_PollingIgnoresConnection ==
    /\ pc.main = "sleep2" => ENABLED SleepConnect
    /\ (pc.main = "while" /\ (running => cycles < MaxCycles)) => ENABLED WhileCheck
    /\ pc.main = "request" => ENABLED RequestSensorReading
    /\ pc.main = "publish_temp" => ENABLED PublishTemp
    /\ pc.main = "publish_hum" => ENABLED PublishHum

\* the connection was reported as failed, "online" was never published, and
\* the cycle has published a reading
C19_Witness ==
    /\ uartRes = "ok"
    /\ mqttRes = "ok"
    /\ notifs >= 1
    /\ drops = 0
    /\ okNotifs = 0
    /\ statusLog = <<>>
    /\ pc.main = "sleep4"
    /\ Len(cyclePubs) = 2

====
